---- MODULE Spec2Model ----
(***************************************************************************)
(* Model of baseline/sf_make_judge_f2p_folder_from_organize_jsonl.py: the  *)
(* dual-run ("prev" / "after") test evaluator.  main() submits _run_one    *)
(* for every instance to a ThreadPoolExecutor and counts the dispositions; *)
(* _run_one validates the record, runs the two variants in fresh           *)
(* containers and writes the two artifacts, or error.txt on an exception.  *)
(*                                                                         *)
(* Python strings are sequences of one-character strings.  A dict value is *)
(* a tagged record [t, v]: t is "absent" (key not in the dict), "none",    *)
(* "str" (v the characters) or "list" (v a sequence of such values).       *)
(***************************************************************************)
EXTENDS Integers, Sequences, FiniteSets, TLC

\* ---------------------------------------------------------------- bounds
NumInst == 2        \* instances in the input jsonl
MaxWorkers == 2     \* largest --workers value tried
MaxRuns == 2        \* batch runs on the same output directory
MaxTests == 2       \* test names in a status map
MaxFaults == 2      \* calls that fail (container, parser, file system) in one batch

Insts == 1..NumInst

\* ------------------------------------------------------- python values
Absent == [t |-> "absent", v |-> <<>>]
PyNone == [t |-> "none", v |-> <<>>]
PyStr(s) == [t |-> "str", v |-> s]
PyList(l) == [t |-> "list", v |-> l]

\* dict.get(key, default): the default only when the key is not in the dict
Get(d, key, default) == IF d[key].t = "absent" THEN default ELSE d[key]

\* truth value of a python value: None, "" and [] are falsy
Truthy(x) == x.t \in {"str", "list"} /\ Len(x.v) > 0

\* x or y
Or(x, y) == IF Truthy(x) THEN x ELSE y

IsSpace(c) == c \in {" ", "\n"}

RECURSIVE lstrip(_)
lstrip(s) == IF s # <<>> /\ IsSpace(Head(s)) THEN lstrip(Tail(s)) ELSE s

RECURSIVE rstrip(_)
rstrip(s) ==
    IF s # <<>> /\ IsSpace(s[Len(s)]) THEN rstrip(SubSeq(s, 1, Len(s) - 1)) ELSE s

strip(s) == rstrip(lstrip(s))

\* str(x) of a python value that is None or a string
str(x) == IF x.t = "str" THEN x.v ELSE <<"N", "o", "n", "e">>

\* the stripped, non-empty parts of a list of commands, None skipped
RECURSIVE join_parts(_)
join_parts(l) ==
    IF l = <<>> THEN <<>>
    ELSE IF Head(l).t = "none" \/ strip(str(Head(l))) = <<>>
         THEN join_parts(Tail(l))
         ELSE <<strip(str(Head(l)))>> \o join_parts(Tail(l))

\* " ; ".join(parts)
RECURSIVE join_sep(_)
join_sep(parts) ==
    IF parts = <<>> THEN <<>>
    ELSE IF Len(parts) = 1 THEN parts[1]
    ELSE parts[1] \o <<" ", ";", " ">> \o join_sep(Tail(parts))

join_cmds(cmds) ==
    IF cmds.t \in {"absent", "none"} THEN <<>>
    ELSE IF cmds.t = "str" THEN strip(cmds.v)
    ELSE join_sep(join_parts(cmds.v))

\* ------------------------------------------------------ instance records
Keys == {"instance_id", "docker_image", "image", "rebuild_cmds", "test_cmds",
         "print_cmds", "log_parser", "parser", "test_patch", "patch"}

ValidRecord ==
    [instance_id |-> PyStr(<<"i">>),
     docker_image |-> PyStr(<<"m">>),
     image |-> Absent,
     rebuild_cmds |-> PyList(<<PyStr(<<"b">>)>>),
     test_cmds |-> PyList(<<PyStr(<<"t">>), PyNone, PyStr(<<" ", "u">>)>>),
     print_cmds |-> PyList(<<PyStr(<<"p">>)>>),
     log_parser |-> PyStr(<<"x">>),
     parser |-> Absent,
     test_patch |-> PyStr(<<"d">>),
     patch |-> PyStr(<<"s">>)]

\* valid through the alternative keys, with nothing to patch or rebuild
AltRecord ==
    [ValidRecord EXCEPT !.docker_image = PyNone, !.image = PyStr(<<"m">>),
                        !.rebuild_cmds = Absent,
                        !.test_cmds = PyStr(<<" ", "t", " ">>),
                        !.log_parser = Absent, !.parser = PyStr(<<"x">>),
                        !.test_patch = PyStr(<<" ">>), !.patch = PyNone]

NoIdRecord == [ValidRecord EXCEPT !.instance_id = Absent]
NoImageRecord == [ValidRecord EXCEPT !.docker_image = Absent]
NoTestRecord == [ValidRecord EXCEPT !.test_cmds = Absent]
NoPrintRecord == [ValidRecord EXCEPT !.print_cmds = PyList(<<>>)]
NoParserRecord == [ValidRecord EXCEPT !.log_parser = PyStr(<<>>)]

Records ==
    {ValidRecord, AltRecord, NoIdRecord, NoImageRecord, NoTestRecord,
     NoPrintRecord, NoParserRecord}

\* the records of the input of one concurrent batch
BatchRecords == {ValidRecord, NoTestRecord}

\* the fields of _run_one, as lines 89-109 compute them
instance_id(r) == str(Or(Get(r, "instance_id", PyNone), PyStr(<<>>)))
image_of(r) == Or(Get(r, "docker_image", PyNone), Get(r, "image", PyNone))
rebuild_cmd(r) == join_cmds(r.rebuild_cmds)
test_cmd(r) == join_cmds(r.test_cmds)
print_cmd(r) == join_cmds(r.print_cmds)
parser_of(r) == Or(Get(r, "log_parser", Get(r, "parser", PyStr(<<>>))), PyStr(<<>>))
test_patch(r) == str(Or(Get(r, "test_patch", PyNone), PyStr(<<>>)))
patch(r) == str(Or(Get(r, "patch", PyNone), PyStr(<<>>)))

\* validation_error without the check of the parser
validation_error_NoParserCheck(r) ==
    IF ~Truthy(image_of(r)) THEN "missing docker_image"
    ELSE IF test_cmd(r) = <<>> THEN "missing test_cmds"
    ELSE IF print_cmd(r) = <<>> THEN "missing print_cmds (needed to judge pass/fail)"
    ELSE "none"

\* the early returns of lines 90-116 other than the skip: the message of the
\* first failed check, or "none" when the record passes
validation_error(r) ==
    IF ~Truthy(image_of(r)) THEN "missing docker_image"
    ELSE IF test_cmd(r) = <<>> THEN "missing test_cmds"
    ELSE IF print_cmd(r) = <<>> THEN "missing print_cmds (needed to judge pass/fail)"
    ELSE IF strip(str(parser_of(r))) = <<>>
         THEN "missing log_parser/parser (needed to judge pass/fail)"
    ELSE "none"

\* ------------------------------------------------------- status and marker
TestNames == 1..MaxTests

LowerChar(c) ==
    CASE c = "F" -> "f" [] c = "A" -> "a" [] c = "I" -> "i" [] c = "L" -> "l"
      [] c = "P" -> "p" [] c = "S" -> "s" [] OTHER -> c

lower(s) == [k \in DOMAIN s |-> LowerChar(s[k])]

fail == <<"f", "a", "i", "l">>

Statuses ==
    {<<"p", "a", "s", "s">>, <<"P", "A", "S", "S">>, fail,
     <<"F", "A", "I", "L">>, <<"F", "a", "i", "l">>,
     <<"e", "r", "r", "o", "r">>, <<"f", "a", "i", "l", "e", "d">>}

NoTest == <<"-">>

\* a status map: test name -> status, NoTest for a name that is not a key
StatusMaps == [TestNames -> Statuses \cup {NoTest}]

values(m) == {m[k] : k \in {n \in DOMAIN m : m[n] # NoTest}}

\* has_fail comparing without lower()
has_fail_CaseSensitive(m) == \E v \in values(m) : v = fail

\* any(str(v).lower() == "fail" for v in status_map.values())
has_fail(m) == \E v \in values(m) : lower(v) = fail

exit_code(m) == IF has_fail(m) THEN 1 ELSE 0

\* ------------------------------------------------------------- the state
VARIABLES
    inst,           \* instances[k]: the records loaded from the input jsonl
    run,            \* number of batch runs started on the output directory
    overwrite,      \* main: args.overwrite != 0, of the current run
    workers,        \* main: max_workers of the executor of the current run
    mainPc,         \* main: "idle", "collect", "shutdown", "done", "crashed"
    ok, skip, err,  \* main: the three counters
    counted,        \* main: how often each future was taken from as_completed
    pc,             \* _run_one of each instance: the line it is at
    label,          \* run_variant: "prev" or "after"
    exc,            \* the exception in flight in _run_one, "None" if none
    raw,            \* run_variant: the output of print_cmd
    calls,          \* the calls the live container of each instance has served
    prev_out,       \* _run_one: result of the "prev" variant
    after_out,      \* _run_one: result of the "after" variant
    result,         \* the future of each instance: returned tuple or exception
    acq, rel,       \* per variant: containers from_launch_image returned, and
                    \* calls of cleanup on them
    fs,             \* out_dir/<instance_id>: the directory and its three files
    lastDisp,       \* disposition of each instance in the previous run
    lastOverwrite,  \* overwrite of the previous run
    faults,         \* failed calls in _run_one of each instance, current run
    status_map,     \* marker computation: the mapping run_parser returned
    marker          \* marker computation: the exit code emitted, -1 before

vars == <<inst, run, overwrite, workers, mainPc, ok, skip, err, counted, pc,
          label, exc, raw, calls, prev_out, after_out, result, acq, rel, fs,
          lastDisp, lastOverwrite, faults, status_map, marker>>

mainVars == <<run, overwrite, workers, mainPc, ok, skip, err, counted,
              lastDisp, lastOverwrite>>
markerVars == <<status_map, marker>>

\* ---------------------------------------------------------- file contents
NoOut == [log |-> <<>>, code |-> -1]
NoFile == [st |-> "absent", data |-> NoOut]
NoErrFile == [st |-> "absent", data |-> "None"]
EmptyDir == [dir |-> FALSE, prev |-> NoFile, after |-> NoFile, err |-> NoErrFile]
NoSession == [prev |-> 0, after |-> 0]
NoResult == [status |-> "none", msg |-> "None"]

\* Path.exists()
exists(f) == f.st # "absent"

RawLogs == {<<"l", "\n">>}
NoRaw == <<>>

\* the maps run_parser returns in the batch: those over the first test name
BatchMaps == {m \in StatusMaps : \A k \in TestNames : k > 1 => m[k] = NoTest}

\* raw.rstrip() + "\n" + f"echo OMNIGRIL_EXIT_CODE={exit_code}\n"
variant_output(r, m) == [log |-> rstrip(r), code |-> exit_code(m)]

Max(a, b) == IF a >= b THEN a ELSE b

Running == {k \in Insts : pc[k] \notin {"none", "queued", "done"}}
Queued == {k \in Insts : pc[k] = "queued"}

\* The program is invoked again on the same output directory only for an
\* input in which at most one record has an instance_id, hence a directory.
Rerunnable ==
    \A j, k \in Insts :
        instance_id(inst[j]) # <<>> /\ instance_id(inst[k]) # <<>> => j = k

\* ------------------------------------------------------------------- Init
IdleBatch ==
    /\ run = 0
    /\ overwrite = FALSE
    /\ workers = 1
    /\ mainPc = "idle"
    /\ ok = 0 /\ skip = 0 /\ err = 0
    /\ counted = [k \in Insts |-> 0]
    /\ pc = [k \in Insts |-> "none"]
    /\ label = [k \in Insts |-> "prev"]
    /\ exc = [k \in Insts |-> "None"]
    /\ raw = [k \in Insts |-> NoRaw]
    /\ calls = [k \in Insts |-> <<>>]
    /\ prev_out = [k \in Insts |-> NoOut]
    /\ after_out = [k \in Insts |-> NoOut]
    /\ result = [k \in Insts |-> NoResult]
    /\ acq = [k \in Insts |-> NoSession]
    /\ rel = [k \in Insts |-> NoSession]
    /\ fs = [k \in Insts |-> EmptyDir]
    /\ lastDisp = [k \in Insts |-> "none"]
    /\ lastOverwrite = FALSE
    /\ faults = [k \in Insts |-> 0]

NoMarker ==
    /\ status_map = [k \in TestNames |-> NoTest]
    /\ marker = -1

\* one batch over an input of NumInst records
Init ==
    /\ inst \in [Insts -> BatchRecords]
    /\ IdleBatch
    /\ NoMarker

\* repeated batches over an input with one record that has an instance_id
InitRerun ==
    /\ inst \in [Insts -> Records]
    /\ Rerunnable
    /\ \E k \in Insts : instance_id(inst[k]) # <<>>
    /\ IdleBatch
    /\ NoMarker

\* ---------------------------------------------------------------- helpers
\* the locals raw, prev_out and after_out are never read again once an
\* exception is in flight or _run_one has returned
Forget(k) ==
    /\ raw' = [raw EXCEPT ![k] = NoRaw]
    /\ prev_out' = [prev_out EXCEPT ![k] = NoOut]
    /\ after_out' = [after_out EXCEPT ![k] = NoOut]

RECURSIVE Sum(_, _)
Sum(f, S) == IF S = {} THEN 0 ELSE LET k == CHOOSE j \in S : TRUE
                                   IN f[k] + Sum(f, S \ {k})

\* a call into the container, the parser or the file system fails; at most
\* MaxFaults calls fail in one batch
Fault(k) ==
    /\ Sum(faults, Insts) < MaxFaults
    /\ faults' = [faults EXCEPT ![k] = @ + 1]

\* the future of _run_one(k) is done
Done(k, status, msg) ==
    /\ result' = [result EXCEPT ![k] = [status |-> status, msg |-> msg]]
    /\ pc' = [pc EXCEPT ![k] = "done"]
    /\ exc' = [exc EXCEPT ![k] = "None"]
    /\ label' = [label EXCEPT ![k] = "prev"]
    /\ Forget(k)
    /\ UNCHANGED calls

\* _run_one returns (status, msg)
Return(k, status, msg) == Done(k, status, msg) /\ UNCHANGED faults

\* a failed call makes an exception leave _run_one: the future holds it
Escape(k, kind) == Done(k, "raised", kind) /\ Fault(k)

\* the next line of _run_one or run_variant, nothing else changing
Goto(k, line) ==
    /\ pc' = [pc EXCEPT ![k] = line]
    /\ UNCHANGED <<label, exc, raw, calls, prev_out, after_out, result, faults>>

\* the container serves the call and the next line follows
Call(k, name, line) ==
    /\ pc' = [pc EXCEPT ![k] = line]
    /\ calls' = [calls EXCEPT ![k] = Append(@, name)]
    /\ UNCHANGED <<label, exc, raw, prev_out, after_out, result, faults>>

\* a call fails inside the try of run_variant: on to the finally clause
RaiseInVariant(k, kind) ==
    /\ Fault(k)
    /\ pc' = [pc EXCEPT ![k] = "cleanup"]
    /\ exc' = [exc EXCEPT ![k] = kind]
    /\ Forget(k)
    /\ UNCHANGED <<label, result, calls>>

\* a call fails inside the try of _run_one: on to the except clause
RaiseInRunOne(k, kind) ==
    /\ Fault(k)
    /\ pc' = [pc EXCEPT ![k] = "except"]
    /\ exc' = [exc EXCEPT ![k] = kind]
    /\ label' = [label EXCEPT ![k] = "prev"]
    /\ Forget(k)
    /\ UNCHANGED <<result, calls>>

\* ------------------------------------------------- _run_one, lines 89-116
\* Start on a thread of its own, whatever max_workers is
Start_Unbounded(k) ==
    /\ pc[k] = "queued"
    /\ \A j \in Queued : k <= j
    /\ IF instance_id(inst[k]) = <<>>
         THEN Return(k, "error", "missing instance_id")
       ELSE IF ~overwrite /\ exists(fs[k].prev) /\ exists(fs[k].after)
         THEN Return(k, "skip", "None")
       ELSE IF validation_error(inst[k]) # "none"
         THEN Return(k, "error", validation_error(inst[k]))
       ELSE Goto(k, "acquire")
    /\ UNCHANGED <<inst, mainVars, acq, rel, fs, markerVars>>

\* Start without the skip of line 97
Start_NoSkip(k) ==
    /\ pc[k] = "queued"
    /\ \A j \in Queued : k <= j
    /\ Cardinality(Running) < workers
    /\ IF instance_id(inst[k]) = <<>>
         THEN Return(k, "error", "missing instance_id")
       ELSE IF validation_error(inst[k]) # "none"
         THEN Return(k, "error", validation_error(inst[k]))
       ELSE Goto(k, "acquire")
    /\ UNCHANGED <<inst, mainVars, acq, rel, fs, markerVars>>

\* A worker thread of the executor takes the oldest queued call and runs it
\* up to its first early return or to the first run_variant.
Start(k) ==
    /\ pc[k] = "queued"
    /\ \A j \in Queued : k <= j
    /\ Cardinality(Running) < workers
    /\ IF instance_id(inst[k]) = <<>>
         THEN Return(k, "error", "missing instance_id")
       ELSE IF ~overwrite /\ exists(fs[k].prev) /\ exists(fs[k].after)
         THEN Return(k, "skip", "None")
       ELSE IF validation_error(inst[k]) # "none"
         THEN Return(k, "error", validation_error(inst[k]))
       ELSE Goto(k, "acquire")
    /\ UNCHANGED <<inst, mainVars, acq, rel, fs, markerVars>>

\* ---------------------------------------------- run_variant, lines 118-146
\* Acquire, with the result of "prev" written to its file before the
\* container of "after" is launched
Acquire_WriteEarly(k) ==
    /\ pc[k] = "acquire"
    /\ \/ /\ acq' = [acq EXCEPT ![k][label[k]] = @ + 1]
          /\ Goto(k, "test_patch")
       \/ /\ RaiseInRunOne(k, "EnvironmentUnavailable")
          /\ UNCHANGED acq
    /\ fs' = IF label[k] = "after"
               THEN [fs EXCEPT ![k].dir = TRUE,
                               ![k].prev = [st |-> "full", data |-> prev_out[k]]]
               ELSE fs
    /\ UNCHANGED <<inst, mainVars, rel, markerVars>>

\* SetupRuntime.from_launch_image: outside the try, so a failure goes
\* straight to the except clause of _run_one
Acquire(k) ==
    /\ pc[k] = "acquire"
    /\ \/ /\ acq' = [acq EXCEPT ![k][label[k]] = @ + 1]
          /\ Goto(k, "test_patch")
       \/ /\ RaiseInRunOne(k, "EnvironmentUnavailable")
          /\ UNCHANGED acq
    /\ UNCHANGED <<inst, mainVars, rel, fs, markerVars>>

ApplyTestPatch(k) ==
    /\ pc[k] = "test_patch"
    /\ IF strip(test_patch(inst[k])) # <<>>
         THEN \/ Call(k, "test_patch", "sol_patch")
              \/ RaiseInVariant(k, "PatchApplyFailed")
         ELSE Goto(k, "sol_patch")
    /\ UNCHANGED <<inst, mainVars, acq, rel, fs, markerVars>>

\* ApplySolutionPatch without the test of apply_solution
ApplySolutionPatch_Always(k) ==
    /\ pc[k] = "sol_patch"
    /\ IF strip(patch(inst[k])) # <<>>
         THEN \/ Call(k, "patch", "rebuild")
              \/ RaiseInVariant(k, "PatchApplyFailed")
         ELSE Goto(k, "rebuild")
    /\ UNCHANGED <<inst, mainVars, acq, rel, fs, markerVars>>

ApplySolutionPatch(k) ==
    /\ pc[k] = "sol_patch"
    /\ IF label[k] = "after" /\ strip(patch(inst[k])) # <<>>
         THEN \/ Call(k, "patch", "rebuild")
              \/ RaiseInVariant(k, "PatchApplyFailed")
         ELSE Goto(k, "rebuild")
    /\ UNCHANGED <<inst, mainVars, acq, rel, fs, markerVars>>

Rebuild(k) ==
    /\ pc[k] = "rebuild"
    /\ IF rebuild_cmd(inst[k]) # <<>>
         THEN \/ Call(k, "rebuild", "test")
              \/ RaiseInVariant(k, "CommandTimeout")
         ELSE Goto(k, "test")
    /\ UNCHANGED <<inst, mainVars, acq, rel, fs, markerVars>>

RunTests(k) ==
    /\ pc[k] = "test"
    /\ \/ Call(k, "test", "print")
       \/ RaiseInVariant(k, "CommandTimeout")
    /\ UNCHANGED <<inst, mainVars, acq, rel, fs, markerVars>>

\* res = container.send_command(print_cmd); raw = res.output
PrintLog(k) ==
    /\ pc[k] = "print"
    /\ \/ \E r \in RawLogs :
             /\ raw' = [raw EXCEPT ![k] = r]
             /\ pc' = [pc EXCEPT ![k] = "parse"]
             /\ calls' = [calls EXCEPT ![k] = Append(@, "print")]
             /\ UNCHANGED <<label, exc, prev_out, after_out, result, faults>>
       \/ RaiseInVariant(k, "CommandTimeout")
    /\ UNCHANGED <<inst, mainVars, acq, rel, fs, markerVars>>

\* run_parser, has_fail, exit_code and the returned text (held until the
\* finally clause has run)
Classify(k) ==
    /\ pc[k] = "parse"
    /\ \/ \E m \in BatchMaps :
             /\ IF label[k] = "prev"
                  THEN /\ prev_out' = [prev_out EXCEPT ![k] = variant_output(raw[k], m)]
                       /\ UNCHANGED after_out
                  ELSE /\ after_out' = [after_out EXCEPT ![k] = variant_output(raw[k], m)]
                       /\ UNCHANGED prev_out
             /\ pc' = [pc EXCEPT ![k] = "cleanup"]
             /\ raw' = [raw EXCEPT ![k] = NoRaw]
             /\ calls' = [calls EXCEPT ![k] = Append(@, "classify")]
             /\ UNCHANGED <<label, exc, result, faults>>
       \/ RaiseInVariant(k, "UnknownParser")
    /\ UNCHANGED <<inst, mainVars, acq, rel, fs, markerVars>>

\* Cleanup without the finally: cleanup() only after a variant that succeeded
Cleanup_OnSuccessOnly(k) ==
    /\ pc[k] = "cleanup"
    /\ rel' = IF exc[k] = "None" THEN [rel EXCEPT ![k][label[k]] = @ + 1] ELSE rel
    /\ IF exc[k] # "None"
         THEN /\ pc' = [pc EXCEPT ![k] = "except"]
              /\ label' = [label EXCEPT ![k] = "prev"]
       ELSE IF label[k] = "prev"
         THEN /\ pc' = [pc EXCEPT ![k] = "acquire"]
              /\ label' = [label EXCEPT ![k] = "after"]
       ELSE /\ pc' = [pc EXCEPT ![k] = "wprev_open"]
            /\ label' = [label EXCEPT ![k] = "prev"]
    /\ calls' = [calls EXCEPT ![k] = <<>>]
    /\ UNCHANGED <<inst, mainVars, acq, fs, markerVars, exc, raw, prev_out,
                   after_out, result, faults>>

\* finally: container.cleanup(), an exception of cleanup itself swallowed;
\* then the exception in flight goes on to _run_one, or "after" follows
\* "prev", or the artifacts are written
Cleanup(k) ==
    /\ pc[k] = "cleanup"
    /\ rel' = [rel EXCEPT ![k][label[k]] = @ + 1]
    /\ IF exc[k] # "None"
         THEN /\ pc' = [pc EXCEPT ![k] = "except"]
              /\ label' = [label EXCEPT ![k] = "prev"]
       ELSE IF label[k] = "prev"
         THEN /\ pc' = [pc EXCEPT ![k] = "acquire"]
              /\ label' = [label EXCEPT ![k] = "after"]
       ELSE /\ pc' = [pc EXCEPT ![k] = "wprev_open"]
            /\ label' = [label EXCEPT ![k] = "prev"]
    /\ calls' = [calls EXCEPT ![k] = <<>>]
    /\ UNCHANGED <<inst, mainVars, acq, fs, markerVars, exc, raw, prev_out,
                   after_out, result, faults>>

\* ----------------------------------------------- _write_text, lines 77-79
SetFile(d, which, f) ==
    IF which = "prev" THEN [d EXCEPT !.dir = TRUE, !.prev = f]
    ELSE IF which = "after" THEN [d EXCEPT !.dir = TRUE, !.after = f]
    ELSE [d EXCEPT !.dir = TRUE, !.err = f]

\* what mkdir(parents=True, exist_ok=True) followed by the open of
\* write_text can leave behind: mkdir fails (only when the directory is not
\* there yet), the open fails, or the file is there, truncated
mkdir_fails(k) == ~fs[k].dir /\ UNCHANGED fs
open_fails(k) == fs' = [fs EXCEPT ![k].dir = TRUE]
opened(k, which, empty) == fs' = [fs EXCEPT ![k] = SetFile(@, which, empty)]

\* the data of write_text reaches the file and the file is closed
written(k, which, text) ==
    fs' = [fs EXCEPT ![k] = SetFile(@, which, [st |-> "full", data |-> text])]

Partial == [st |-> "partial", data |-> NoOut]
PartialErr == [st |-> "partial", data |-> "None"]

\* ------------------------------------------------ _run_one, lines 151-153
WritePrevOpen(k) ==
    /\ pc[k] = "wprev_open"
    /\ \/ opened(k, "prev", Partial) /\ Goto(k, "wprev_data")
       \/ open_fails(k) /\ RaiseInRunOne(k, "OSError")
       \/ mkdir_fails(k) /\ RaiseInRunOne(k, "OSError")
    /\ UNCHANGED <<inst, mainVars, acq, rel, markerVars>>

WritePrevData(k) ==
    /\ pc[k] = "wprev_data"
    /\ \/ written(k, "prev", prev_out[k]) /\ Goto(k, "wafter_open")
       \/ RaiseInRunOne(k, "OSError") /\ UNCHANGED fs
    /\ UNCHANGED <<inst, mainVars, acq, rel, markerVars>>

WriteAfterOpen(k) ==
    /\ pc[k] = "wafter_open"
    /\ \/ opened(k, "after", Partial) /\ Goto(k, "wafter_data")
       \/ open_fails(k) /\ RaiseInRunOne(k, "OSError")
    /\ UNCHANGED <<inst, mainVars, acq, rel, markerVars>>

WriteAfterData(k) ==
    /\ pc[k] = "wafter_data"
    /\ \/ written(k, "after", after_out[k]) /\ Return(k, "ok", "None")
       \/ RaiseInRunOne(k, "OSError") /\ UNCHANGED fs
    /\ UNCHANGED <<inst, mainVars, acq, rel, markerVars>>

\* ------------------------------------------------ _run_one, lines 154-158
\* except Exception as e: inst_out.mkdir, _write_text(error.txt) and the
\* return.  A failure of the mkdir, of the open or of the write is raised
\* inside the except clause and leaves _run_one.
Handler(k) ==
    /\ pc[k] = "except"
    /\ \/ written(k, "err", exc[k]) /\ Return(k, "error", exc[k])
       \/ opened(k, "err", PartialErr) /\ Escape(k, "OSError")
       \/ open_fails(k) /\ Escape(k, "OSError")
       \/ mkdir_fails(k) /\ Escape(k, "OSError")
    /\ UNCHANGED <<inst, mainVars, acq, rel, markerVars>>

\* ---------------------------------------------------- main, lines 195-212
workerVars == <<label, exc, raw, calls, prev_out, after_out>>


\* one invocation of the program: the counters start at 0 and every
\* instance is submitted to an executor of max(1, args.workers) threads.
\* The first invocation finds an empty output directory, where line 97 is
\* false whatever --overwrite is: it is explored with --overwrite 0 only.
StartBatch(ow, w) ==
    /\ mainPc \in {"idle", "done", "crashed"}
    /\ run < MaxRuns
    /\ run = 0 \/ Rerunnable
    /\ run = 0 => ~ow
    /\ run' = run + 1
    /\ overwrite' = ow
    /\ workers' = Max(1, w)
    /\ mainPc' = "collect"
    /\ ok' = 0 /\ skip' = 0 /\ err' = 0
    /\ counted' = [k \in Insts |-> 0]
    /\ pc' = [k \in Insts |-> "queued"]
    /\ result' = [k \in Insts |-> NoResult]
    /\ acq' = [k \in Insts |-> NoSession]
    /\ rel' = [k \in Insts |-> NoSession]
    /\ lastDisp' = [k \in Insts |-> result[k].status]
    /\ lastOverwrite' = overwrite
    /\ faults' = [k \in Insts |-> 0]
    /\ UNCHANGED <<inst, workerVars, fs, markerVars>>

\* Collect leaving the loop at the first error disposition
Collect_StopOnError(k) ==
    /\ mainPc = "collect"
    /\ pc[k] = "done"
    /\ counted[k] = 0
    /\ IF result[k].status = "raised"
         THEN /\ mainPc' = "shutdown"
              /\ UNCHANGED <<ok, skip, err, counted>>
         ELSE /\ counted' = [counted EXCEPT ![k] = @ + 1]
              /\ ok' = IF result[k].status = "ok" THEN ok + 1 ELSE ok
              /\ skip' = IF result[k].status = "skip" THEN skip + 1 ELSE skip
              /\ err' = IF result[k].status \notin {"ok", "skip"} THEN err + 1 ELSE err
              /\ mainPc' = IF result[k].status \notin {"ok", "skip"} THEN "done"
                                                                     ELSE mainPc
    /\ UNCHANGED <<inst, run, overwrite, workers, lastDisp, lastOverwrite, pc,
                   workerVars, result, acq, rel, fs, faults, markerVars>>

\* for fut in as_completed(futs): status, msg = fut.result(); a future that
\* holds an exception raises it here, which ends the loop
Collect(k) ==
    /\ mainPc = "collect"
    /\ pc[k] = "done"
    /\ counted[k] = 0
    /\ IF result[k].status = "raised"
         THEN /\ mainPc' = "shutdown"
              /\ UNCHANGED <<ok, skip, err, counted>>
         ELSE /\ counted' = [counted EXCEPT ![k] = @ + 1]
              /\ ok' = IF result[k].status = "ok" THEN ok + 1 ELSE ok
              /\ skip' = IF result[k].status = "skip" THEN skip + 1 ELSE skip
              /\ err' = IF result[k].status \notin {"ok", "skip"} THEN err + 1 ELSE err
              /\ UNCHANGED mainPc
    /\ UNCHANGED <<inst, run, overwrite, workers, lastDisp, lastOverwrite, pc,
                   workerVars, result, acq, rel, fs, faults, markerVars>>

\* the loop is over and the with block is left: print "Done. ok=.."
Finish ==
    /\ mainPc = "collect"
    /\ \A k \in Insts : counted[k] = 1
    /\ mainPc' = "done"
    /\ UNCHANGED <<inst, run, overwrite, workers, ok, skip, err, counted,
                   lastDisp, lastOverwrite, pc, workerVars, result, acq, rel,
                   fs, faults, markerVars>>

\* the exception leaves the with block, whose exit waits for every submitted
\* call (shutdown(wait=True)), and then ends main without the summary
Crash ==
    /\ mainPc = "shutdown"
    /\ \A k \in Insts : pc[k] = "done"
    /\ mainPc' = "crashed"
    /\ UNCHANGED <<inst, run, overwrite, workers, ok, skip, err, counted,
                   lastDisp, lastOverwrite, pc, workerVars, result, acq, rel,
                   fs, faults, markerVars>>

Next ==
    \/ \E ow \in BOOLEAN, w \in 0..MaxWorkers : StartBatch(ow, w)
    \/ \E k \in Insts : Start(k)
    \/ \E k \in Insts : Acquire(k)
    \/ \E k \in Insts : ApplyTestPatch(k)
    \/ \E k \in Insts : ApplySolutionPatch(k)
    \/ \E k \in Insts : Rebuild(k)
    \/ \E k \in Insts : RunTests(k)
    \/ \E k \in Insts : PrintLog(k)
    \/ \E k \in Insts : Classify(k)
    \/ \E k \in Insts : Cleanup(k)
    \/ \E k \in Insts : WritePrevOpen(k)
    \/ \E k \in Insts : WritePrevData(k)
    \/ \E k \in Insts : WriteAfterOpen(k)
    \/ \E k \in Insts : WriteAfterData(k)
    \/ \E k \in Insts : Handler(k)
    \/ \E k \in Insts : Collect(k)
    \/ Finish
    \/ Crash

Spec == Init /\ [][Next]_vars

SpecRerun == InitRerun /\ [][Next]_vars

\* ------------------------------------- the marker computation on its own
\* lines 137-140 applied to every status map over MaxTests test names
InitMarker ==
    /\ inst = [k \in Insts |-> ValidRecord]
    /\ IdleBatch
    /\ status_map \in StatusMaps
    /\ marker = -1

EmitMarker ==
    /\ marker = -1
    /\ marker' = exit_code(status_map)
    /\ UNCHANGED <<inst, mainVars, pc, workerVars, result, acq, rel, fs, faults,
                   status_map>>

NextMarker == EmitMarker

SpecMarker == InitMarker /\ [][NextMarker]_vars

\* ================================================================ claims
Labels == {"prev", "after"}

\* the lines of run_variant between from_launch_image and the end of finally
InTry(k, l) ==
    /\ label[k] = l
    /\ pc[k] \in {"test_patch", "sol_patch", "rebuild", "test", "print", "parse",
                  "cleanup"}

\* C1: every container from_launch_image returned is cleaned up exactly once
\* on every exit path of the variant: while the variant is inside its try
\* the container is acquired and not yet released, and everywhere else (the
\* variant ended by return or by exception, the batch ended) the number of
\* cleanup calls equals the number of acquired containers, at most one each.
C1_CleanupInvariant ==
    \A k \in Insts : \A l \in Labels :
        /\ acq[k][l] <= 1
        /\ IF InTry(k, l) THEN acq[k][l] = 1 /\ rel[k][l] = 0
                          ELSE rel[k][l] = acq[k][l]

\* a batch has ended in which the "after" variant timed out after "prev"
\* had succeeded, both containers released
C1_Witness ==
    /\ mainPc = "done"
    /\ \E k \in Insts :
          /\ result[k] = [status |-> "error", msg |-> "CommandTimeout"]
          /\ acq[k] = [prev |-> 1, after |-> 1]
          /\ rel[k] = [prev |-> 1, after |-> 1]

\* "fail" in any mix of upper and lower case
IsFailAnyCase(s) ==
    /\ Len(s) = 4
    /\ s[1] \in {"f", "F"} /\ s[2] \in {"a", "A"}
    /\ s[3] \in {"i", "I"} /\ s[4] \in {"l", "L"}

\* C5: the emitted marker is 1 exactly when some test of the status map has
\* a status that is "fail" up to case, and 0 otherwise (all pass, only
\* pass/error, no test at all).
C5_MarkerCorrectness ==
    marker # -1 =>
        /\ marker \in {0, 1}
        /\ marker = 1 <=> \E n \in TestNames :
                              status_map[n] # NoTest /\ IsFailAnyCase(status_map[n])

\* the marker 1 was emitted for a map whose only failure is spelled "FAIL"
C5_Witness ==
    /\ marker = 1
    /\ \E n \in TestNames : status_map[n] = <<"F", "A", "I", "L">>
    /\ \A n \in TestNames : status_map[n] # fail

\* a required field that is not in the record, is None or is empty
FieldMissing(x) == x.t \in {"absent", "none"} \/ Len(x.v) = 0

\* image, test_commands, print_commands or parser_id missing or empty
MissingRequired(r) ==
    \/ FieldMissing(r.docker_image) /\ FieldMissing(r.image)
    \/ FieldMissing(r.test_cmds)
    \/ FieldMissing(r.print_cmds)
    \/ FieldMissing(r.log_parser) /\ FieldMissing(r.parser)

\* the record of instance k has an id and its required fields
Evaluable(k) == instance_id(inst[k]) # <<>> /\ ~MissingRequired(inst[k])

\* C2: every error raised inside the evaluation of an instance becomes the
\* error disposition of that instance and of no other: an evaluated instance
\* (not skipped) in which some call failed ends with "error", and one in
\* which no call failed ends with "ok", whatever its siblings did.
C2_Isolation ==
    \A k \in Insts :
        pc[k] = "done" /\ Evaluable(k) /\ result[k].status # "skip" =>
            result[k].status = IF faults[k] = 0 THEN "ok" ELSE "error"

\* both runs of "running the batch twice with overwrite=false": the current
\* run is a later run without overwrite that follows one without overwrite
SecondRun == run >= 2 /\ ~overwrite /\ ~lastOverwrite

\* what the second run does for an instance that was ok in the first
SkippedUntouched(k) ==
    /\ fs'[k] = fs[k]
    /\ acq'[k] = NoSession
    /\ pc'[k] = "done" => result'[k].status = "skip"

\* the first run printed its counts: every instance got a disposition
FirstRunReported == \A k \in Insts : lastDisp[k] \in {"ok", "skip", "error"}

C4_ValidationShortCircuit ==
    \A k \in Insts :
        MissingRequired(inst[k]) =>
            /\ acq[k] = NoSession
            /\ pc[k] \in {"none", "queued", "done"}
            /\ pc[k] = "done" /\ result[k].status # "skip" =>
                   result[k].status = "error"

\* a batch has ended in which the record without a parser got "error"
C4_Witness ==
    /\ mainPc = "done"
    /\ \E k \in Insts :
          /\ inst[k] = NoParserRecord
          /\ result[k].status = "error"
          /\ acq[k] = NoSession

\* C6: an instance that fails the validation of its required fields ends
\* with "error" and with a directory that holds error.txt and nothing else,
\* the text being the message that names the missing field.
C6_ValidationDiagnostic ==
    \A k \in Insts :
        pc[k] = "done" /\ instance_id(inst[k]) # <<>> /\ MissingRequired(inst[k]) =>
            /\ result[k].status = "error"
            /\ fs[k].dir
            /\ fs[k].err = [st |-> "full", data |-> result[k].msg]
            /\ ~exists(fs[k].prev) /\ ~exists(fs[k].after)

\* C7: a failure while error.txt is written is swallowed: no future ever
\* holds an exception, and main never leaves its loop by one.
C7_SecondaryFailureSwallowed ==
    /\ \A k \in Insts : result[k].status # "raised"
    /\ mainPc \notin {"shutdown", "crashed"}

\* C8: no half-written test_output_prev_apply.txt or
\* test_output_after_apply.txt is ever visible under its final name.
C8_AtomicWrite ==
    \A k \in Insts : fs[k].prev.st # "partial" /\ fs[k].after.st # "partial"

\* the futures counted so far that returned the given disposition
CountOf(status) ==
    Cardinality({k \in Insts : counted[k] = 1 /\ result[k].status = status})

LastEvaluation(k) == IF result[k].status = "skip" THEN lastDisp[k]
                                                  ELSE result[k].status

\* C10: error.txt is in the directory of an instance only if the most
\* recent evaluation of that instance ended in an error (returned "error"
\* or raised; a skip behind a skip says nothing about it).
C10_ErrorTxtOnlyOnError ==
    \A k \in Insts :
        pc[k] = "done" /\ exists(fs[k].err) =>
            LastEvaluation(k) \in {"error", "raised", "skip"}

\* the containers of instance k that were acquired and not yet cleaned up
Live(k) == (acq[k].prev - rel[k].prev) + (acq[k].after - rel[k].after)

\* C11: every instance in flight holds at most one live container, the
\* container of "prev" is cleaned up before the one of "after" is acquired,
\* and the live containers of the whole batch never outnumber the worker
\* threads of the executor.
C11_SessionExclusivity ==
    /\ \A k \in Insts :
          /\ Live(k) \in {0, 1}
          /\ acq[k].after = 1 => rel[k].prev = 1
          /\ Live(k) = 1 => pc[k] \notin {"none", "queued", "done"}
    /\ Sum([k \in Insts |-> Live(k)], Insts) <= workers

\* two instances hold a container each, one of them already in "after"
C11_Witness ==
    /\ workers >= 2
    /\ \E j, k \in Insts :
          /\ j # k /\ Live(j) = 1 /\ Live(k) = 1
          /\ InTry(k, "after")

\* the place of a call in "apply test patch, apply solution patch, rebuild,
\* test commands, print commands, classify"
Rank(name) ==
    CASE name = "test_patch" -> 1 [] name = "patch" -> 2 [] name = "rebuild" -> 3
      [] name = "test" -> 4 [] name = "print" -> 5 [] name = "classify" -> 6

\* the calls of c come in that order, none of them twice
InOrder(c) == \A i, j \in DOMAIN c : i < j => Rank(c[i]) < Rank(c[j])

Called(k, name) == \E i \in DOMAIN calls[k] : calls[k][i] = name

\* the last calls of c are those of tl
EndsWith(c, tl) ==
    Len(c) >= Len(tl) /\ SubSeq(c, Len(c) - Len(tl) + 1, Len(c)) = tl

\* run_variant(l) of instance k is running
InVariant(k, l) == (label[k] = l /\ pc[k] = "acquire") \/ InTry(k, l)

\* C12: "after" starts only when "prev" has run to completion and its
\* container is cleaned up; the solution patch is applied in the "after"
\* container only, and there whenever it is not blank; the calls of one
\* container come in the order test patch, solution patch, rebuild, test
\* commands, print commands, classify; and the text that is classified is
\* the output of the print command, which follows the test command.
C12_VariantOrdering ==
    \A k \in Insts :
        /\ InVariant(k, "after") => acq[k].prev = 1 /\ rel[k].prev = 1
        /\ InVariant(k, "prev") => acq[k].after = 0
        /\ InOrder(calls[k])
        /\ Called(k, "patch") => label[k] = "after"
        /\ pc[k] = "rebuild" /\ label[k] = "after" /\ strip(patch(inst[k])) # <<>>
              => Called(k, "patch")
        /\ pc[k] = "parse" => EndsWith(calls[k], <<"test", "print">>)
                               /\ raw[k] \in RawLogs
        /\ raw[k] # NoRaw => pc[k] = "parse"
        /\ Called(k, "classify") =>
              /\ EndsWith(calls[k], <<"test", "print", "classify">>)
              /\ IF label[k] = "prev"
                   THEN prev_out[k].log \in {rstrip(r) : r \in RawLogs}
                   ELSE after_out[k].log \in {rstrip(r) : r \in RawLogs}

\* the "after" container has served all six calls in order
C12_Witness ==
    \E k \in Insts :
        /\ InTry(k, "after")
        /\ calls[k] = <<"test_patch", "patch", "rebuild", "test", "print", "classify">>
        /\ prev_out[k] # NoOut /\ after_out[k] # NoOut

\* the exceptions run_variant can raise
VariantErrors ==
    {"EnvironmentUnavailable", "PatchApplyFailed", "CommandTimeout", "UnknownParser"}

\* _run_one(k) has not left its two run_variant calls by a return of "after"
BeforeWrites(k) ==
    \/ pc[k] \in {"queued", "acquire"}
    \/ \E l \in Labels : InTry(k, l)
    \/ pc[k] = "except" /\ exc[k] \in VariantErrors

\* the two test_output files of instance k are the same before and after
OutputsUntouched(k) == fs'[k].prev = fs[k].prev /\ fs'[k].after = fs[k].after

\* C13: no step of _run_one taken before both variants have returned, or
\* in the except clause after one of them raised, creates or modifies a
\* test_output file (those of an earlier run stay as they are); a
\* test_output file changes only when both containers were acquired and
\* cleaned up and both results are at hand; and the except clause that
\* returns "error" for a variant's exception has written error.txt.
C13_BothOrNothing ==
    [][\A k \in Insts :
          /\ BeforeWrites(k) => OutputsUntouched(k)
          /\ ~OutputsUntouched(k) =>
                /\ acq[k] = [prev |-> 1, after |-> 1]
                /\ rel[k] = [prev |-> 1, after |-> 1]
                /\ prev_out[k] # NoOut /\ after_out[k] # NoOut
                /\ exc[k] = "None"
          /\ pc[k] = "except" /\ exc[k] \in VariantErrors
                /\ pc'[k] = "done" /\ result'[k].status = "error" =>
                fs'[k].err = [st |-> "full", data |-> exc[k]]]_vars

\* a later run over the artifacts of an earlier ok run has ended in the
\* error of a variant: both test_output files are still there, with error.txt
C13_Witness ==
    /\ run >= 2
    /\ \E k \in Insts :
          /\ pc[k] = "done" /\ lastDisp[k] = "ok"
          /\ result[k].status = "error" /\ result[k].msg \in VariantErrors
          /\ fs[k].prev.st = "full" /\ fs[k].after.st = "full"
          /\ fs[k].err = [st |-> "full", data |-> result[k].msg]

====
